---------------------------- MODULE Spec2Model ----------------------------
(***************************************************************************)
(* Crop, Paste and Overlay of brianhama/imaging (tools.go).                *)
(*                                                                         *)
(* Images are Go's *image.NRGBA: a flat byte sequence Pix, a Stride and a  *)
(* bounding Rect.  Overlay's blend is computed in float64; the model       *)
(* carries IEEE-754 binary64 arithmetic (round to nearest, ties to even)   *)
(* on arbitrary-precision naturals kept as sequences of 15-bit limbs,      *)
(* because the blend's truncated result depends on the rounding of every   *)
(* intermediate operation.                                                 *)
(***************************************************************************)
EXTENDS Integers, Sequences, FiniteSets, TLC

(***************************************************************************)
(* Naturals of any size: little-endian sequences of limbs in 0..LimbBase-1 *)
(* without leading (high) zero limbs; zero is the empty sequence.          *)
(***************************************************************************)
LimbBits == 15
LimbBase == 32768

Pow2Small(j) == <<1, 2, 4, 8, 16, 32, 64, 128, 256, 512, 1024, 2048, 4096,
                  8192, 16384, 32768>>[j + 1]

RECURSIVE BNorm(_)
BNorm(a) ==
    IF a = <<>> THEN <<>>
    ELSE IF a[Len(a)] = 0 THEN BNorm(SubSeq(a, 1, Len(a) - 1))
    ELSE a

BLimb(a, i) == IF i >= 1 /\ i <= Len(a) THEN a[i] ELSE 0

BFromInt(n) ==
    IF n = 0 THEN <<>>
    ELSE IF n < LimbBase THEN <<n>>
    ELSE IF n < LimbBase * LimbBase THEN <<n % LimbBase, n \div LimbBase>>
    ELSE <<n % LimbBase, (n \div LimbBase) % LimbBase,
           n \div (LimbBase * LimbBase)>>

\* the value of a natural of at most two limbs
BToInt(a) == BLimb(a, 1) + LimbBase * BLimb(a, 2)

RECURSIVE BCmpFrom(_, _, _)
BCmpFrom(a, b, i) ==
    IF i = 0 THEN 0
    ELSE IF a[i] < b[i] THEN -1
    ELSE IF a[i] > b[i] THEN 1
    ELSE BCmpFrom(a, b, i - 1)

\* -1, 0, 1 as a < b, a = b, a > b
BCmp(a, b) ==
    IF Len(a) < Len(b) THEN -1
    ELSE IF Len(a) > Len(b) THEN 1
    ELSE BCmpFrom(a, b, Len(a))

RECURSIVE BAddC(_, _, _, _)
BAddC(a, b, i, c) ==
    IF i > Len(a) /\ i > Len(b)
    THEN (IF c = 0 THEN <<>> ELSE <<c>>)
    ELSE LET s == BLimb(a, i) + BLimb(b, i) + c
         IN  <<s % LimbBase>> \o BAddC(a, b, i + 1, s \div LimbBase)

BAdd(a, b) == BAddC(a, b, 1, 0)

RECURSIVE BSubC(_, _, _, _)
BSubC(a, b, i, c) ==
    IF i > Len(a) THEN <<>>
    ELSE LET s == a[i] - BLimb(b, i) - c
         IN  IF s < 0 THEN <<s + LimbBase>> \o BSubC(a, b, i + 1, 1)
             ELSE <<s>> \o BSubC(a, b, i + 1, 0)

\* a - b, for a >= b
BSub(a, b) == BNorm(BSubC(a, b, 1, 0))

RECURSIVE BMulSmallC(_, _, _, _)
BMulSmallC(a, k, i, c) ==
    IF i > Len(a)
    THEN (IF c = 0 THEN <<>> ELSE <<c>>)
    ELSE LET s == a[i] * k + c
         IN  <<s % LimbBase>> \o BMulSmallC(a, k, i + 1, s \div LimbBase)

\* a * k, for 0 <= k < LimbBase
BMulSmall(a, k) == IF k = 0 THEN <<>> ELSE BMulSmallC(a, k, 1, 0)

RECURSIVE BMul(_, _)
BMul(a, b) ==
    IF a = <<>> \/ b = <<>> THEN <<>>
    ELSE BAdd(BMulSmall(a, Head(b)),
              LET t == BMul(a, Tail(b)) IN IF t = <<>> THEN <<>> ELSE <<0>> \o t)

RECURSIVE BitLenSmall(_)
BitLenSmall(n) == IF n = 0 THEN 0 ELSE 1 + BitLenSmall(n \div 2)

BitLen(a) ==
    IF a = <<>> THEN 0
    ELSE LimbBits * (Len(a) - 1) + BitLenSmall(a[Len(a)])

Zeros(k) == [i \in 1..k |-> 0]

\* a * 2^s
BShl(a, s) ==
    IF a = <<>> THEN <<>>
    ELSE Zeros(s \div LimbBits) \o BMulSmall(a, Pow2Small(s % LimbBits))

RECURSIVE BShrLimbs(_, _, _, _)
BShrLimbs(a, j, i, acc) ==
    \* limb i of a \div 2^j, from the top down; acc collects the result
    IF i = 0 THEN acc
    ELSE BShrLimbs(a, j, i - 1,
            <<(a[i] \div Pow2Small(j))
              + (BLimb(a, i + 1) % Pow2Small(j)) * Pow2Small(LimbBits - j)>>
            \o acc)

\* a \div 2^s
BShr(a, s) ==
    LET k == s \div LimbBits
        t == IF k >= Len(a) THEN <<>> ELSE SubSeq(a, k + 1, Len(a))
    IN  BNorm(BShrLimbs(t, s % LimbBits, Len(t), <<>>))

\* bit s (0 = lowest) of a
BBit(a, s) == (BLimb(a, s \div LimbBits + 1) \div Pow2Small(s % LimbBits)) % 2

\* whether a has a one among its bits below bit s
BLowNonZero(a, s) ==
    \/ \E i \in 1..(s \div LimbBits) : BLimb(a, i) # 0
    \/ BLimb(a, s \div LimbBits + 1) % Pow2Small(s % LimbBits) # 0

(***************************************************************************)
(* Long division in base LimbBase.  The divisor d is scaled so that its    *)
(* top limb is at least LimbBase/2; a quotient digit estimated from the    *)
(* top two limbs of the running remainder is then never too small, and is  *)
(* corrected downwards.                                                    *)
(***************************************************************************)
RECURSIVE BDigitFix(_, _, _)
BDigitFix(r, d, q) ==
    IF BCmp(BMulSmall(d, q), r) <= 0 THEN q ELSE BDigitFix(r, d, q - 1)

\* the digit r \div d, for r < d * LimbBase and d's top limb >= LimbBase/2
BDigit(r, d) ==
    IF BCmp(r, d) < 0 THEN 0
    ELSE LET n  == Len(d)
             e  == (BLimb(r, n + 1) * LimbBase + r[n]) \div d[n]
             q0 == IF e > LimbBase - 1 THEN LimbBase - 1 ELSE e
         IN  BDigitFix(r, d, q0)

RECURSIVE BDivStep(_, _, _, _, _)
BDivStep(a, d, i, q, r) ==
    \* limbs i..1 of a are still to be brought down
    IF i = 0 THEN [q |-> BNorm(q), inexact |-> r # <<>>]
    ELSE LET r1 == BNorm(<<a[i]>> \o r)
             qd == BDigit(r1, d)
         IN  BDivStep(a, d, i - 1, <<qd>> \o q, BSub(r1, BMulSmall(d, qd)))

\* [q |-> a \div d, inexact |-> whether a % d # 0], for d # 0
BDivMod(a, d) ==
    LET t == LimbBits - BitLenSmall(d[Len(d)])
    IN  BDivStep(BShl(a, t), BShl(d, t), Len(BShl(a, t)), <<>>, <<>>)


(***************************************************************************)
(* float64.  A finite value is (-1)^neg * m * 2^e with m a natural of at   *)
(* most MantBits+1 bits (m is not kept normalised: equal values may have   *)
(* different m and e, and are compared with FCmp).  Exponents stay far     *)
(* from the overflow and subnormal ranges for the values Overlay computes  *)
(* from an opacity in [0,1] that is 0 or at least 2^-1000.                 *)
(***************************************************************************)
MantBits == 53

Fin(m, e) == [k |-> "fin", neg |-> FALSE, m |-> m, e |-> e]
FNeg(x)   == [x EXCEPT !.neg = ~x.neg]
NaN       == [k |-> "nan", neg |-> FALSE, m |-> <<>>, e |-> 0]
PosInf    == [k |-> "inf", neg |-> FALSE, m |-> <<>>, e |-> 0]
FZero     == Fin(<<>>, 0)
FOne      == Fin(<<1>>, 0)

\* float64(n) of an integer n in 0..255 (exact)
FromUint8(n) == Fin(BFromInt(n), 0)

IsNaN(x)  == x.k = "nan"
IsZero(x) == x.k = "fin" /\ x.m = <<>>

\* q * 2^e (plus a non-zero fraction of the last place of q when sticky)
\* rounded to MantBits bits, to nearest, ties to even
RoundNearestEven(q, sticky, e) ==
    IF BitLen(q) <= MantBits THEN Fin(q, e)
    ELSE LET drop == BitLen(q) - MantBits
             m    == BShr(q, drop)
             up   == /\ BBit(q, drop - 1) = 1
                     /\ \/ sticky
                        \/ BLowNonZero(q, drop - 1)
                        \/ BBit(q, drop) = 1
         IN  Fin(IF up THEN BAdd(m, <<1>>) ELSE m, e + drop)

\* the quotient dm.q * 2^e, cut off iff dm.inexact, rounded
RoundQuotient(dm, e) == RoundNearestEven(dm.q, dm.inexact, e)

MinInt(a, b) == IF a < b THEN a ELSE b
MaxInt(a, b) == IF a > b THEN a ELSE b

\* x + y of non-negative finite values, or NaN
FAdd(x, y) ==
    IF IsNaN(x) \/ IsNaN(y) THEN NaN
    ELSE IF IsZero(x) THEN y
    ELSE IF IsZero(y) THEN x
    ELSE LET e == MinInt(x.e, y.e)
         IN  RoundNearestEven(BAdd(BShl(x.m, x.e - e), BShl(y.m, y.e - e)),
                              FALSE, e)

\* x - y of non-negative finite values with x >= y, or NaN
FSub(x, y) ==
    IF IsNaN(x) \/ IsNaN(y) THEN NaN
    ELSE IF IsZero(y) THEN x
    ELSE LET e == MinInt(x.e, y.e)
         IN  RoundNearestEven(BSub(BShl(x.m, x.e - e), BShl(y.m, y.e - e)),
                              FALSE, e)

\* x * y of non-negative finite values, or NaN
FMul(x, y) ==
    IF IsNaN(x) \/ IsNaN(y) THEN NaN
    ELSE IF IsZero(x) \/ IsZero(y) THEN FZero
    ELSE RoundNearestEven(BMul(x.m, y.m), FALSE, x.e + y.e)

\* x / y of non-negative finite values, or NaN: 0/0 is NaN, x/0 is +Inf
FDiv(x, y) ==
    IF IsNaN(x) \/ IsNaN(y) THEN NaN
    ELSE IF IsZero(y) THEN (IF IsZero(x) THEN NaN ELSE PosInf)
    ELSE IF IsZero(x) THEN FZero
    ELSE LET s == MaxInt(0, MantBits + 2 + BitLen(y.m) - BitLen(x.m))
         IN  RoundQuotient(BDivMod(BShl(x.m, s), y.m), x.e - y.e - s)

\* -1, 0, 1 as |x| < |y|, |x| = |y|, |x| > |y|, for finite x and y
FCmpMag(x, y) ==
    IF IsZero(x) THEN (IF IsZero(y) THEN 0 ELSE -1)
    ELSE IF IsZero(y) THEN 1
    ELSE LET e == MinInt(x.e, y.e)
         IN  BCmp(BShl(x.m, x.e - e), BShl(y.m, y.e - e))

\* x < y, for x and y not NaN
FLess(x, y) ==
    LET sx == IF IsZero(x) THEN 0 ELSE IF x.neg THEN -1 ELSE 1
        sy == IF IsZero(y) THEN 0 ELSE IF y.neg THEN -1 ELSE 1
        mag == IF x.k = "inf" THEN (IF y.k = "inf" THEN 0 ELSE 1)
               ELSE IF y.k = "inf" THEN -1
               ELSE FCmpMag(x, y)
    IN  IF sx # sy THEN sx < sy
        ELSE IF sx = 0 THEN FALSE
        ELSE IF sx = 1 THEN mag < 0
        ELSE mag > 0

\* math.Max and math.Min (NaN if either is NaN; Max(+0, -0) = +0)
MathMax(x, y) ==
    IF IsNaN(x) \/ IsNaN(y) THEN NaN
    ELSE IF IsZero(x) /\ IsZero(y) THEN (IF x.neg THEN y ELSE x)
    ELSE IF FLess(y, x) THEN x ELSE y

MathMin(x, y) ==
    IF IsNaN(x) \/ IsNaN(y) THEN NaN
    ELSE IF IsZero(x) /\ IsZero(y) THEN (IF x.neg THEN x ELSE y)
    ELSE IF FLess(x, y) THEN x ELSE y

\* the integer part of a non-negative finite x below 2^30
FTrunc(x) ==
    IF x.e >= 0 THEN BToInt(BShl(x.m, x.e)) ELSE BToInt(BShr(x.m, -x.e))

\* uint8 as it would be if the conversion rounded to the nearest integer
Uint8_Rounding(x, u) ==
    IF x.k # "fin" \/ (x.neg /\ ~IsZero(x)) THEN u
    ELSE IF FCmpMag(x, Fin(<<256>>, 0)) >= 0 THEN u
    ELSE IF FTrunc(FAdd(x, Fin(<<1>>, -1))) > 255 THEN u
    ELSE FTrunc(FAdd(x, Fin(<<1>>, -1)))

\* uint8(x): truncation toward zero; where x is NaN or outside 0..255 the
\* Go specification leaves the result to the implementation, given here as
\* the byte u the build produces
Uint8(x, u) ==
    IF x.k # "fin" \/ (x.neg /\ ~IsZero(x)) THEN u
    ELSE IF FCmpMag(x, Fin(<<256>>, 0)) >= 0 THEN u
    ELSE FTrunc(x)

(***************************************************************************)
(* Go's image.Point and image.Rectangle.                                   *)
(***************************************************************************)
Pt(x, y) == [X |-> x, Y |-> y]
PtAdd(p, q) == Pt(p.X + q.X, p.Y + q.Y)
PtSub(p, q) == Pt(p.X - q.X, p.Y - q.Y)

Rectangle(min, max) == [Min |-> min, Max |-> max]
ZR == Rectangle(Pt(0, 0), Pt(0, 0))

\* image.Rect: the rectangle with the coordinates put in order
Rect(x0, y0, x1, y1) ==
    Rectangle(Pt(MinInt(x0, x1), MinInt(y0, y1)), Pt(MaxInt(x0, x1), MaxInt(y0, y1)))

Dx(r) == r.Max.X - r.Min.X
Dy(r) == r.Max.Y - r.Min.Y
Size(r) == Pt(Dx(r), Dy(r))
Empty(r) == r.Min.X >= r.Max.X \/ r.Min.Y >= r.Max.Y
RectSub(r, p) == Rectangle(PtSub(r.Min, p), PtSub(r.Max, p))

Intersect(r, s) ==
    LET t == Rectangle(Pt(MaxInt(r.Min.X, s.Min.X), MaxInt(r.Min.Y, s.Min.Y)),
                       Pt(MinInt(r.Max.X, s.Max.X), MinInt(r.Max.Y, s.Max.Y)))
    IN  IF Empty(t) THEN ZR ELSE t

Overlaps(r, s) ==
    /\ ~Empty(r) /\ ~Empty(s)
    /\ r.Min.X < s.Max.X /\ s.Min.X < r.Max.X
    /\ r.Min.Y < s.Max.Y /\ s.Min.Y < r.Max.Y

\* whether the point (x, y) is in r
In(x, y, r) == r.Min.X <= x /\ x < r.Max.X /\ r.Min.Y <= y /\ y < r.Max.Y

\* Go's integer division, which truncates toward zero
Quo(a, b) == IF a >= 0 THEN a \div b ELSE -((-a) \div b)

(***************************************************************************)
(* Go's *image.NRGBA: Pix holds the bytes R, G, B, A of each pixel, rows   *)
(* Stride bytes apart; Pix[n] of the code is Pix[n + 1] here.              *)
(***************************************************************************)
NRGBA(pix, stride, rect) == [Pix |-> pix, Stride |-> stride, Rect |-> rect]

Bounds(img) == img.Rect

PixOffset(img, x, y) == (y - img.Rect.Min.Y) * img.Stride + (x - img.Rect.Min.X) * 4

\* the pixel <<R, G, B, A>> of img at (x, y), a point of its bounds
PixelAt(img, x, y) ==
    LET i == PixOffset(img, x, y)
    IN  <<img.Pix[i + 1], img.Pix[i + 2], img.Pix[i + 3], img.Pix[i + 4]>>

\* image.NewNRGBA: a zeroed image
NewNRGBA(r) == NRGBA([n \in 1..(4 * Dx(r) * Dy(r)) |-> 0], 4 * Dx(r), r)

\* (*image.NRGBA).SubImage: the part of img in r, sharing img's bytes
SubImage(img, r) ==
    LET t == Intersect(r, img.Rect)
        i == PixOffset(img, t.Min.X, t.Min.Y)
    IN  IF Empty(t) THEN NRGBA(<<>>, 0, ZR)
        ELSE NRGBA(SubSeq(img.Pix, i + 1, Len(img.Pix)), img.Stride, t)

\* Clone: an independent copy of img's pixels whose bounds start at (0, 0)
Clone(img) ==
    LET w == Dx(img.Rect)
        h == Dy(img.Rect)
    IN  IF Empty(img.Rect) THEN NewNRGBA(RectSub(img.Rect, img.Rect.Min))
        ELSE NRGBA([n \in 1..(4 * w * h) |->
                      img.Pix[PixOffset(img,
                                        img.Rect.Min.X + (((n - 1) \div 4) % w),
                                        img.Rect.Min.Y + ((n - 1) \div (4 * w)))
                              + ((n - 1) % 4) + 1]],
                   4 * w, Rectangle(Pt(0, 0), Pt(w, h)))

\* toNRGBA: img itself when its bounds start at (0, 0), else a copy that does
toNRGBA(img) == IF img.Rect.Min = Pt(0, 0) THEN img ELSE Clone(img)

(***************************************************************************)
(* Crop, CropCenter, CropTop.                                              *)
(***************************************************************************)
Crop(img, rect) ==
    LET src     == toNRGBA(img)
        srcRect == RectSub(rect, Bounds(img).Min)
        sub     == SubImage(src, srcRect)
    IN  Clone(sub)

\* CropCenter as it would be if y0 were computed from the crop's width
CropCenter_WidthForHeight(img, width, height) ==
    LET cropW     == width
        cropH     == height
        srcBounds == Bounds(img)
        srcW      == Dx(srcBounds)
        srcH      == Dy(srcBounds)
        srcMinX   == srcBounds.Min.X
        srcMinY   == srcBounds.Min.Y
        centerX   == srcMinX + Quo(srcW, 2)
        centerY   == srcMinY + Quo(srcH, 2)
        x0        == centerX - Quo(cropW, 2)
        y0        == centerY - Quo(cropW, 2)
        x1        == x0 + cropW
        y1        == y0 + cropH
    IN  Crop(img, Rect(x0, y0, x1, y1))

CropCenter(img, width, height) ==
    LET cropW     == width
        cropH     == height
        srcBounds == Bounds(img)
        srcW      == Dx(srcBounds)
        srcH      == Dy(srcBounds)
        srcMinX   == srcBounds.Min.X
        srcMinY   == srcBounds.Min.Y
        centerX   == srcMinX + Quo(srcW, 2)
        centerY   == srcMinY + Quo(srcH, 2)
        x0        == centerX - Quo(cropW, 2)
        y0        == centerY - Quo(cropH, 2)
        x1        == x0 + cropW
        y1        == y0 + cropH
    IN  Crop(img, Rect(x0, y0, x1, y1))

CropTop(img, width, height) ==
    LET cropW     == width
        cropH     == height
        srcBounds == Bounds(img)
        srcW      == Dx(srcBounds)
        srcMinX   == srcBounds.Min.X
        centerX   == srcMinX + Quo(srcW, 2)
        x0        == centerX - Quo(cropW, 2)
        y0        == 0
        x1        == x0 + cropW
        y1        == y0 + cropH
    IN  Crop(img, Rect(x0, y0, x1, y1))

(***************************************************************************)
(* Paste, PasteCenter.  An operation yields [ok, img]: ok is FALSE when a  *)
(* slice or index of the code is out of range (a run-time panic).          *)
(***************************************************************************)
\* the row loop as it would be if the source offset were not advanced
RECURSIVE PasteRows_SameSourceRow(_, _, _, _, _, _, _, _, _)
PasteRows_SameSourceRow(dstPix, srcPix, i0, j0, rowSize, di, dj, row, numRows) ==
    IF row >= numRows THEN [ok |-> TRUE, pix |-> dstPix]
    ELSE IF i0 < 0 \/ j0 < 0 \/ i0 + rowSize > Len(dstPix) \/ j0 + rowSize > Len(srcPix)
    THEN [ok |-> FALSE, pix |-> dstPix]
    ELSE PasteRows_SameSourceRow([n \in 1..Len(dstPix) |->
                                    IF i0 < n /\ n <= i0 + rowSize THEN srcPix[j0 + (n - i0)]
                                    ELSE dstPix[n]],
                                 srcPix, i0 + di, j0, rowSize, di, dj, row + 1, numRows)

RECURSIVE PasteRows(_, _, _, _, _, _, _, _, _)
PasteRows(dstPix, srcPix, i0, j0, rowSize, di, dj, row, numRows) ==
    IF row >= numRows THEN [ok |-> TRUE, pix |-> dstPix]
    ELSE IF i0 < 0 \/ j0 < 0 \/ i0 + rowSize > Len(dstPix) \/ j0 + rowSize > Len(srcPix)
    THEN [ok |-> FALSE, pix |-> dstPix]
    ELSE PasteRows([n \in 1..Len(dstPix) |->
                      IF i0 < n /\ n <= i0 + rowSize THEN srcPix[j0 + (n - i0)]
                      ELSE dstPix[n]],
                   srcPix, i0 + di, j0 + dj, rowSize, di, dj, row + 1, numRows)

Paste(background, img, pos) ==
    LET src         == toNRGBA(img)
        dst         == Clone(background)
        startPt     == PtSub(pos, Bounds(background).Min)
        endPt       == PtAdd(startPt, Size(Bounds(src)))
        pasteBounds == Rectangle(startPt, endPt)
    IN  IF Overlaps(Bounds(dst), pasteBounds)
        THEN LET intersectBounds == Intersect(Bounds(dst), pasteBounds)
                 rowSize   == Dx(intersectBounds) * 4
                 numRows   == Dy(intersectBounds)
                 srcStartX == intersectBounds.Min.X - pasteBounds.Min.X
                 srcStartY == intersectBounds.Min.Y - pasteBounds.Min.Y
                 i0        == PixOffset(dst, intersectBounds.Min.X, intersectBounds.Min.Y)
                 j0        == PixOffset(src, srcStartX, srcStartY)
                 rows      == PasteRows(dst.Pix, src.Pix, i0, j0, rowSize,
                                        dst.Stride, src.Stride, 0, numRows)
             IN  [ok |-> rows.ok, img |-> NRGBA(rows.pix, dst.Stride, dst.Rect)]
        ELSE [ok |-> TRUE, img |-> dst]

PasteCenter(background, img) ==
    LET bgBounds == Bounds(background)
        bgW      == Dx(bgBounds)
        bgH      == Dy(bgBounds)
        bgMinX   == bgBounds.Min.X
        bgMinY   == bgBounds.Min.Y
        centerX  == bgMinX + Quo(bgW, 2)
        centerY  == bgMinY + Quo(bgH, 2)
        x0       == centerX - Quo(Dx(Bounds(img)), 2)
        y0       == centerY - Quo(Dy(Bounds(img)), 2)
    IN  Paste(background, img, Pt(x0, y0))

(***************************************************************************)
(* Overlay.                                                                *)
(***************************************************************************)
F255 == FromUint8(255)

\* line 119 as it would be with Min and Max exchanged
ClampOpacity_MinMaxSwapped(opacity) == MathMax(MathMin(opacity, FZero), FOne)

\* line 119: opacity = math.Min(math.Max(opacity, 0.0), 1.0)
ClampOpacity(opacity) == MathMin(MathMax(opacity, FZero), FOne)

\* line 141: coef2 := opacity * a2 / 255.0
Coef2(opacity, a2) == FDiv(FMul(opacity, a2), F255)

\* line 142 as it would be without the factor (1 - coef2)
Coef1_Unweighted(coef2, a1) == FDiv(a1, F255)

\* line 142: coef1 := (1 - coef2) * a1 / 255.0
Coef1(coef2, a1) == FDiv(FMul(FSub(FOne, coef2), a1), F255)

\* lines 147-149: uint8(float64(dst.Pix[i+c])*coef1 + float64(src.Pix[j+c])*coef2)
Channel(dc, sc, coef1, coef2, u) ==
    Uint8(FAdd(FMul(FromUint8(dc), coef1), FMul(FromUint8(sc), coef2)), u)

\* line 150: uint8(math.Min(a1+a2*opacity*(255.0-a1)/255.0, 255.0))
Alpha(a1, a2, opacity, u) ==
    Uint8(MathMin(FAdd(a1, FDiv(FMul(FMul(a2, opacity), FSub(F255, a1)), F255)), F255), u)

\* lines 147-150, given the coefficients coef1 and coef2 of lines 144-145
BlendWith(d, s, opacity, u, coef1, coef2) ==
    << Channel(d[1], s[1], coef1, coef2, u),
       Channel(d[2], s[2], coef1, coef2, u),
       Channel(d[3], s[3], coef1, coef2, u),
       Alpha(FromUint8(d[4]), FromUint8(s[4]), opacity, u) >>

\* lines 143-150, given coef1 and coef2 of lines 141-142 and their sum; the
\* divisions of lines 144-145 are 0/0 when coefSum is zero
Normalise(d, s, opacity, u, coef1, coef2, coefSum) ==
    [px      |-> BlendWith(d, s, opacity, u, FDiv(coef1, coefSum), FDiv(coef2, coefSum)),
     zeroDiv |-> IsZero(coefSum)]

BlendFrom(d, s, opacity, u, coef1, coef2) ==
    Normalise(d, s, opacity, u, coef1, coef2, FAdd(coef1, coef2))

BlendFromCoef2(d, s, opacity, u, coef2) ==
    BlendFrom(d, s, opacity, u, Coef1(coef2, FromUint8(d[4])), coef2)

\* lines 138-150: the blend of destination pixel d with source pixel s, each
\* <<R, G, B, A>>: the pixel written (px) and whether 0 was divided by 0
\* (zeroDiv); u is the byte the build's uint8() gives for NaN
OverlayPixel(d, s, opacity, u) ==
    BlendFromCoef2(d, s, opacity, u, Coef2(opacity, FromUint8(s[4])))

(***************************************************************************)
(* The inputs of the model.                                                *)
(***************************************************************************)
\* images are up to MaxDim pixels wide and high when composed, and are
\* placed up to MaxDim pixels off the background's corner
MaxDim == 2
\* images are up to MaxSide pixels wide and high when cropped
MaxSide == 3

\* what uint8(NaN) gives: the low byte of the integer conversion's result,
\* 0 where that is 0 or the minimum integer, 255 where it is the maximum
ImplBytes == {0, 255}

\* opaque red, a coloured pixel of alpha 0, two translucent pixels
BgPalette == << <<255, 0, 0, 255>>, <<10, 20, 30, 0>>, <<200, 100, 50, 1>>,
                <<90, 200, 200, 128>> >>
\* opaque blue, a coloured pixel of alpha 0, two translucent pixels
FgPalette == << <<0, 0, 255, 255>>, <<40, 50, 60, 0>>, <<200, 200, 200, 9>>,
                <<90, 7, 200, 200>> >>
OpaquePalette == << <<0, 0, 255, 255>>, <<9, 80, 7, 255>>, <<255, 255, 255, 255>> >>

Half       == Fin(<<1>>, -1)
Quarter    == Fin(<<1>>, -2)
ThreeTenth == Fin(<<13107, 26214, 19660, 153>>, -54)   \* float64 0.3
Opacities  == {FNeg(Half), FZero, Quarter, ThreeTenth, Half, FOne, Fin(<<3>>, -1)}

\* The bytes of a w x h image whose rows are 4*w + pad bytes apart and whose
\* pixel (i, j), counted from its corner, is px[i, j]
PixOf(w, h, pad, px) ==
    [n \in 1..((4 * w + pad) * h) |->
        LET j == (n - 1) \div (4 * w + pad)
            b == (n - 1) % (4 * w + pad)
        IN  IF b < 4 * w THEN px[b \div 4, j][(b % 4) + 1] ELSE 77]

\* a w x h image at min with pixels cycling through palette from seed on
PaletteImage(w, h, min, pad, palette, seed) ==
    LET px == [i \in 0..(w - 1), j \in 0..(h - 1) |->
                  palette[((seed + i + 2 * j) % Len(palette)) + 1]]
    IN  NRGBA(PixOf(w, h, pad, px), 4 * w + pad,
              Rectangle(min, PtAdd(min, Pt(w, h))))

\* a w x h image at min each of whose pixels tells its place
PlaceImage(w, h, min, pad) ==
    LET px == [i \in 0..(w - 1), j \in 0..(h - 1) |->
                  <<i, j, (16 * j + i) % 256, 255 - i>>]
    IN  NRGBA(PixOf(w, h, pad, px), 4 * w + pad,
              Rectangle(min, PtAdd(min, Pt(w, h))))

EmptyImage(w, h) == NRGBA(<<>>, 4 * w, Rectangle(Pt(0, 0), Pt(w, h)))

Backgrounds ==
    { PaletteImage(w, h, Pt(0, 0), 0, BgPalette, 0) : w \in 1..MaxDim, h \in {1, MaxDim} }
    \cup { PaletteImage(MaxDim, MaxDim, Pt(1, -1), 4, BgPalette, 1) }

Overlays ==
    { PaletteImage(w, h, Pt(0, 0), 0, FgPalette, 1) : w \in 1..MaxDim, h \in 1..MaxDim }
    \cup { PaletteImage(w, MaxDim, Pt(0, 0), 4, OpaquePalette, 0) : w \in 1..MaxDim }
    \cup { PaletteImage(MaxDim, h, Pt(-1, 2), 4, FgPalette, 0) : h \in {1, MaxDim} }
    \cup { EmptyImage(0, 0), EmptyImage(0, MaxDim), EmptyImage(1, 0) }

\* placements relative to the background's corner
Offsets == { Pt(x, y) : x \in (-MaxDim)..MaxDim, y \in (-MaxDim)..MaxDim }

CropImages ==
    { PlaceImage(w, h, Pt(0, 0), 0) : w \in 1..MaxSide, h \in 1..MaxSide }
    \cup { PlaceImage(w, h, Pt(2, -1), 0) : w \in 1..MaxSide, h \in 1..MaxSide }
    \cup { PlaceImage(w, MaxSide, Pt(0, 3), 8) : w \in 1..MaxSide }
    \cup { PlaceImage(10, 10, Pt(0, 0), 0), PlaceImage(10, 10, Pt(-3, 1), 0) }

\* crop rectangles, relative to the image's corner; Max may be below Min
CropRects ==
    { Rectangle(Pt(x0, y0), Pt(x1, y1)) :
        x0 \in -1..MaxSide, y0 \in -1..MaxSide, x1 \in -1..MaxSide, y1 \in -1..MaxSide }

CropSizes == (-2)..(MaxSide + 1)

(***************************************************************************)
(* Overlay's blends of the pixels of the model's palettes, computed once.  *)
(***************************************************************************)
PaletteSet(palette) == { palette[i] : i \in 1..Len(palette) }

BgPixels == PaletteSet(BgPalette)
FgPixels == PaletteSet(FgPalette) \cup PaletteSet(OpaquePalette)

\* the opacities after line 119
ClampedOpacities == { ClampOpacity(a) : a \in Opacities }

BlendTable ==
    [ d \in BgPixels, s \in FgPixels, o \in ClampedOpacities, u \in ImplBytes |->
        OverlayPixel(d, s, o, u) ]

BlendPixel(d, s, opacity, u) ==
    IF d \in BgPixels /\ s \in FgPixels /\ opacity \in ClampedOpacities /\ u \in ImplBytes
    THEN BlendTable[d, s, opacity, u]
    ELSE OverlayPixel(d, s, opacity, u)

Byte  == 0..255
Pixel == Byte \X Byte \X Byte \X Byte

\* the pixel loop as it would be if a row ran one pixel past the intersection
RECURSIVE OverlayLoop_OnePast(_, _, _, _, _, _, _, _)
OverlayLoop_OnePast(dst, src, pasteBounds, intersectBounds, blend, zero, x, y) ==
    IF y >= intersectBounds.Max.Y THEN [ok |-> TRUE, img |-> dst, zero |-> zero]
    ELSE IF x > intersectBounds.Max.X
    THEN OverlayLoop_OnePast(dst, src, pasteBounds, intersectBounds, blend, zero,
                             intersectBounds.Min.X, y + 1)
    ELSE LET i    == y * dst.Stride + x * 4
             srcX == x - pasteBounds.Min.X
             srcY == y - pasteBounds.Min.Y
             j    == srcY * src.Stride + srcX * 4
         IN  IF i < 0 \/ j < 0 \/ i + 3 >= Len(dst.Pix) \/ j + 3 >= Len(src.Pix)
             THEN [ok |-> FALSE, img |-> dst, zero |-> zero]
             ELSE LET b == blend[<<dst.Pix[i + 1], dst.Pix[i + 2], dst.Pix[i + 3],
                                   dst.Pix[i + 4]>>,
                                 <<src.Pix[j + 1], src.Pix[j + 2], src.Pix[j + 3],
                                   src.Pix[j + 4]>>]
                  IN  OverlayLoop_OnePast(
                          [dst EXCEPT !.Pix[i + 1] = b.px[1], !.Pix[i + 2] = b.px[2],
                                      !.Pix[i + 3] = b.px[3], !.Pix[i + 4] = b.px[4]],
                          src, pasteBounds, intersectBounds, blend,
                          IF b.zeroDiv THEN zero \cup {Pt(x, y)} ELSE zero,
                          x + 1, y)

RECURSIVE OverlayLoop(_, _, _, _, _, _, _, _)
OverlayLoop(dst, src, pasteBounds, intersectBounds, blend, zero, x, y) ==
    \* lines 130-152, from pixel (x, y) of the intersection on; blend[d, s] is
    \* the blend of lines 138-150, zero the pixels where it divided 0 by 0
    IF y >= intersectBounds.Max.Y THEN [ok |-> TRUE, img |-> dst, zero |-> zero]
    ELSE IF x >= intersectBounds.Max.X
    THEN OverlayLoop(dst, src, pasteBounds, intersectBounds, blend, zero,
                     intersectBounds.Min.X, y + 1)
    ELSE LET i    == y * dst.Stride + x * 4
             srcX == x - pasteBounds.Min.X
             srcY == y - pasteBounds.Min.Y
             j    == srcY * src.Stride + srcX * 4
         IN  IF i < 0 \/ j < 0 \/ i + 3 >= Len(dst.Pix) \/ j + 3 >= Len(src.Pix)
             THEN [ok |-> FALSE, img |-> dst, zero |-> zero]
             ELSE LET b == blend[<<dst.Pix[i + 1], dst.Pix[i + 2], dst.Pix[i + 3],
                                   dst.Pix[i + 4]>>,
                                 <<src.Pix[j + 1], src.Pix[j + 2], src.Pix[j + 3],
                                   src.Pix[j + 4]>>]
                  IN  OverlayLoop([dst EXCEPT !.Pix[i + 1] = b.px[1], !.Pix[i + 2] = b.px[2],
                                              !.Pix[i + 3] = b.px[3], !.Pix[i + 4] = b.px[4]],
                                  src, pasteBounds, intersectBounds, blend,
                                  IF b.zeroDiv THEN zero \cup {Pt(x, y)} ELSE zero,
                                  x + 1, y)

\* [ok, img, zero]: img is the result, zero the pixels where 0 was divided by 0
Overlay(background, img, pos, opacityArg, u) ==
    LET opacity     == ClampOpacity(opacityArg)
        src         == toNRGBA(img)
        dst         == Clone(background)
        startPt     == PtSub(pos, Bounds(background).Min)
        endPt       == PtAdd(startPt, Size(Bounds(src)))
        pasteBounds == Rectangle(startPt, endPt)
    IN  IF Overlaps(Bounds(dst), pasteBounds)
        THEN LET intersectBounds == Intersect(Bounds(dst), pasteBounds)
             IN  OverlayLoop(dst, src, pasteBounds, intersectBounds,
                             [d \in Pixel, s \in Pixel |-> BlendPixel(d, s, opacity, u)],
                             {}, intersectBounds.Min.X, intersectBounds.Min.Y)
        ELSE [ok |-> TRUE, img |-> dst, zero |-> {}]

(***************************************************************************)
(* The state: the operation applied (op), its arguments, its result (out), *)
(* whether it panicked, and the pixels at which it divided 0 by 0.         *)
(***************************************************************************)
VARIABLES op, background, img, pos, opacity, rect, size, build, out, panicked, zeroDiv

vars == <<op, background, img, pos, opacity, rect, size, build, out, panicked, zeroDiv>>

NoImage == NRGBA(<<>>, 0, ZR)

Idle ==
    /\ op = "none"
    /\ opacity = FZero
    /\ rect = ZR
    /\ size = Pt(0, 0)
    /\ build = 0
    /\ out = NoImage
    /\ panicked = FALSE
    /\ zeroDiv = {}

\* the inputs of Paste, PasteCenter and Overlay
Init ==
    /\ background \in Backgrounds
    /\ img \in Overlays
    /\ \E d \in Offsets : pos = PtAdd(Bounds(background).Min, d)
    /\ Idle

\* the input of Crop, CropCenter and CropTop
CropInit ==
    /\ img \in CropImages
    /\ background = NoImage
    /\ pos = Pt(0, 0)
    /\ Idle

DoPaste ==
    /\ op = "none"
    /\ \E r \in {Paste(background, img, pos)} : out' = r.img /\ panicked' = ~r.ok
    /\ op' = "Paste"
    /\ UNCHANGED <<background, img, pos, opacity, rect, size, build, zeroDiv>>

DoPasteCenter ==
    /\ op = "none"
    /\ \E r \in {PasteCenter(background, img)} : out' = r.img /\ panicked' = ~r.ok
    /\ op' = "PasteCenter"
    /\ UNCHANGED <<background, img, pos, opacity, rect, size, build, zeroDiv>>

DoOverlay ==
    /\ op = "none"
    /\ \E o \in Opacities, u \in ImplBytes :
         /\ opacity' = o
         /\ build' = u
         /\ \E r \in {Overlay(background, img, pos, o, u)} :
              out' = r.img /\ panicked' = ~r.ok /\ zeroDiv' = r.zero
    /\ op' = "Overlay"
    /\ UNCHANGED <<background, img, pos, rect, size>>

DoCrop ==
    /\ op = "none"
    /\ \E r \in CropRects :
         /\ rect' = Rectangle(PtAdd(r.Min, Bounds(img).Min), PtAdd(r.Max, Bounds(img).Min))
         /\ out' = Crop(img, rect')
    /\ op' = "Crop"
    /\ UNCHANGED <<background, img, pos, opacity, size, build, panicked, zeroDiv>>

DoCropCenter ==
    /\ op = "none"
    /\ \E w \in CropSizes, h \in CropSizes :
         /\ size' = Pt(w, h)
         /\ out' = CropCenter(img, w, h)
    /\ op' = "CropCenter"
    /\ UNCHANGED <<background, img, pos, opacity, rect, build, panicked, zeroDiv>>

DoCropTop ==
    /\ op = "none"
    /\ \E w \in CropSizes, h \in CropSizes :
         /\ size' = Pt(w, h)
         /\ out' = CropTop(img, w, h)
    /\ op' = "CropTop"
    /\ UNCHANGED <<background, img, pos, opacity, rect, build, panicked, zeroDiv>>

Next == DoPaste \/ DoPasteCenter \/ DoOverlay

CropNext == DoCrop \/ DoCropCenter \/ DoCropTop

Spec == Init /\ [][Next]_vars

CropSpec == CropInit /\ [][CropNext]_vars

(***************************************************************************)
(* The vocabulary of the properties.  A point p of the result stands for   *)
(* the point p + Bounds(background).Min of the background; the overlay     *)
(* placed at pos covers it when that point lies in [pos, pos + size).      *)
(***************************************************************************)
OutPoints ==
    { Pt(x, y) : x \in 0..(Dx(Bounds(background)) - 1),
                 y \in 0..(Dy(Bounds(background)) - 1) }

BgPoint(p) == PtAdd(p, Bounds(background).Min)

Covered(p) ==
    /\ pos.X <= BgPoint(p).X /\ BgPoint(p).X < pos.X + Dx(Bounds(img))
    /\ pos.Y <= BgPoint(p).Y /\ BgPoint(p).Y < pos.Y + Dy(Bounds(img))

BgAt(p)  == PixelAt(background, BgPoint(p).X, BgPoint(p).Y)
FgAt(p)  == PixelAt(img, BgPoint(p).X - pos.X + Bounds(img).Min.X,
                         BgPoint(p).Y - pos.Y + Bounds(img).Min.Y)
OutAt(p) == PixelAt(out, p.X, p.Y)

\* the result has the background's size, starts at (0, 0), and nothing panicked
SameFrame ==
    /\ ~panicked
    /\ Bounds(out) = Rectangle(Pt(0, 0), Size(Bounds(background)))

AllOpaque(image) ==
    \A x \in Bounds(image).Min.X..(Bounds(image).Max.X - 1),
       y \in Bounds(image).Min.Y..(Bounds(image).Max.Y - 1) :
        PixelAt(image, x, y)[4] = 255

\* the opacity Overlay blends with, as the specification states it: the
\* argument brought into [0, 1]
Effective(o) == IF FLess(o, FZero) THEN FZero ELSE IF FLess(FOne, o) THEN FOne ELSE o

\* coefSum is zero: background alpha 0, and opacity or overlay alpha 0
CoefSumZero(d, s, o) == d[4] = 0 /\ (s[4] = 0 \/ IsZero(o))

\* n is the float64 value v cut to an integer of 0..255: n <= v < n + 1
Truncates(n, v) ==
    /\ n \in 0..255
    /\ v.k = "fin"
    /\ FCmpMag(FromUint8(n), v) <= 0
    /\ FCmpMag(v, FromUint8(n + 1)) < 0

\* The float64 values the specification gives for the four channels of the
\* blend of d and s at opacity o, for the pixels of the palettes
SpecBlend ==
    [ d \in BgPixels, s \in FgPixels, o \in { Effective(a) : a \in Opacities } |->
        LET a1    == FromUint8(d[4])
            a2    == FromUint8(s[4])
            coef2 == FDiv(FMul(o, a2), F255)
            coef1 == FDiv(FMul(FSub(FOne, coef2), a1), F255)
            sum   == FAdd(coef1, coef2)
        IN  << FAdd(FMul(FromUint8(d[1]), FDiv(coef1, sum)),
                    FMul(FromUint8(s[1]), FDiv(coef2, sum))),
               FAdd(FMul(FromUint8(d[2]), FDiv(coef1, sum)),
                    FMul(FromUint8(s[2]), FDiv(coef2, sum))),
               FAdd(FMul(FromUint8(d[3]), FDiv(coef1, sum)),
                    FMul(FromUint8(s[3]), FDiv(coef2, sum))),
               MathMin(FAdd(a1, FDiv(FMul(FMul(a2, o), FSub(F255, a1)), F255)), F255) >> ]

Area(image) == Dx(Bounds(image)) * Dy(Bounds(image))

\* rect's Max is below its Min on some axis
Inverted(r) == r.Max.X < r.Min.X \/ r.Max.Y < r.Min.Y

(***************************************************************************)
(* C1 (as stated): Overlay(bg, fg, pos, 0) leaves every pixel of the       *)
(* overlap equal to the background's in R, G, B and A, for every           *)
(* background alpha including 0.  Fails where the background alpha is 0:   *)
(* coefSum is 0, the coefficients are 0/0 = NaN, and uint8(NaN) is written.*)
(***************************************************************************)
C1_OpacityZeroKeepsBackground ==
    (op = "Overlay" /\ IsZero(opacity)) =>
        /\ SameFrame
        /\ \A p \in OutPoints : Covered(p) => OutAt(p) = BgAt(p)

(***************************************************************************)
(* C2 (as stated): where coefSum is zero (background alpha 0 and           *)
(* opacity * overlay alpha 0) Overlay performs no division by zero and     *)
(* sets the output R, G and B to 0.  Fails: lines 144-145 divide anyway.   *)
(***************************************************************************)
C2_ZeroCoefSumSpecialCased ==
    op = "Overlay" =>
        \A p \in OutPoints :
            (Covered(p) /\ CoefSumZero(BgAt(p), FgAt(p), Effective(opacity))) =>
                /\ p \notin zeroDiv
                /\ OutAt(p)[1] = 0 /\ OutAt(p)[2] = 0 /\ OutAt(p)[3] = 0

(***************************************************************************)
(* C3: every pixel of Paste(bg, fg, pos) inside the intersection of bg's   *)
(* bounds with fg placed at pos equals, in all four channels, the fg pixel *)
(* at the corresponding source offset, whatever bg held there.             *)
(***************************************************************************)
C3_PasteCopiesOverlay ==
    op = "Paste" =>
        /\ SameFrame
        /\ \A p \in OutPoints : Covered(p) => OutAt(p) = FgAt(p)

C3_Witness ==
    /\ op = "Paste"
    /\ Bounds(img).Min # Pt(0, 0)
    /\ Dy(Bounds(img)) > 1
    /\ \E p \in OutPoints : Covered(p) /\ BgAt(p) # FgAt(p) /\ OutAt(p) = FgAt(p)
    /\ \E p \in OutPoints : ~Covered(p)
    /\ \E x \in Bounds(img).Min.X..(Bounds(img).Max.X - 1) :
          pos.X + (x - Bounds(img).Min.X) < Bounds(background).Min.X

(***************************************************************************)
(* C4: for Paste and Overlay every result pixel outside the intersection   *)
(* of the background with the placed overlay equals the background pixel   *)
(* at the same position; when the placed overlay does not overlap the      *)
(* background (outside, touching at an edge, or zero-sized) the whole      *)
(* result is an unmodified clone of the background.                        *)
(***************************************************************************)
C4_OutsideUntouched ==
    op \in {"Paste", "Overlay"} =>
        /\ SameFrame
        /\ \A p \in OutPoints : ~Covered(p) => OutAt(p) = BgAt(p)
        /\ (\A p \in OutPoints : ~Covered(p)) => out = Clone(background)

C4_Witness ==
    /\ op = "Overlay"
    /\ opacity = FOne
    /\ \E p \in OutPoints : Covered(p) /\ OutAt(p) # BgAt(p)
    /\ \E p \in OutPoints : ~Covered(p) /\ OutAt(p) = BgAt(p) /\ BgAt(p)[4] # 0

(***************************************************************************)
(* C5: if every pixel of fg has alpha 255, every pixel of                  *)
(* Overlay(bg, fg, pos, 1) in the overlap has exactly the R, G, B of the   *)
(* fg pixel and alpha 255, for every background colour and alpha.          *)
(***************************************************************************)
C5_OpaqueOverlayReplaces ==
    (op = "Overlay" /\ FCmpMag(opacity, FOne) = 0 /\ ~opacity.neg /\ AllOpaque(img)) =>
        /\ SameFrame
        /\ \A p \in OutPoints :
              Covered(p) => OutAt(p) = <<FgAt(p)[1], FgAt(p)[2], FgAt(p)[3], 255>>

C5_Witness ==
    /\ op = "Overlay"
    /\ opacity = FOne
    /\ AllOpaque(img)
    /\ \E p \in OutPoints : Covered(p) /\ BgAt(p)[4] = 0 /\ BgAt(p)[1] # FgAt(p)[1]
    /\ \E p \in OutPoints : Covered(p) /\ BgAt(p)[4] = 128
    /\ \E p \in OutPoints : Covered(p) /\ BgAt(p)[4] = 255

(***************************************************************************)
(* C6 (as stated): CropTop(img, width, height) crops the rectangle whose   *)
(* top edge is the image's top edge (y0 = the bounds' minimum Y) and which *)
(* is horizontally centred (x0 = minX + srcW/2 - width/2), also for an     *)
(* image whose bounds do not start at (0, 0).  Fails: line 49 sets y0 to 0.*)
(***************************************************************************)
C6_CropTopStartsAtImageTop ==
    (op = "CropTop" /\ size.X >= 0 /\ size.Y >= 0) =>
        LET x0 == Bounds(img).Min.X + (Dx(Bounds(img)) \div 2) - (size.X \div 2)
            y0 == Bounds(img).Min.Y
        IN  out = Crop(img, Rectangle(Pt(x0, y0), Pt(x0 + size.X, y0 + size.Y)))

(***************************************************************************)
(* C7 (as stated): CropCenter(img, w, h) with 0 <= w <= image width and    *)
(* 0 <= h <= image height returns a zero-origin w x h buffer whose pixel   *)
(* (i, j) is the source pixel (minX + srcW/2 - w/2 + i,                    *)
(* minY + srcH/2 - h/2 + j).  Fails when exactly one of w, h is 0: the     *)
(* result is then the 0 x 0 buffer.                                        *)
(***************************************************************************)
CenterPixels ==
    \A i \in 0..(size.X - 1), j \in 0..(size.Y - 1) :
        PixelAt(out, i, j) =
            PixelAt(img, Bounds(img).Min.X + (Dx(Bounds(img)) \div 2) - (size.X \div 2) + i,
                         Bounds(img).Min.Y + (Dy(Bounds(img)) \div 2) - (size.Y \div 2) + j)

C7_CropCenterAsStated ==
    (/\ op = "CropCenter"
     /\ 0 <= size.X /\ size.X <= Dx(Bounds(img))
     /\ 0 <= size.Y /\ size.Y <= Dy(Bounds(img))) =>
        /\ Bounds(out) = Rectangle(Pt(0, 0), size)
        /\ CenterPixels

(***************************************************************************)
(* C7 (amended): with 0 < w <= image width and 0 < h <= image height the   *)
(* result is a zero-origin w x h buffer whose pixel (i, j) is the source   *)
(* pixel (minX + srcW/2 - w/2 + i, minY + srcH/2 - h/2 + j); with w = 0 or *)
(* h = 0 it is the empty 0 x 0 buffer; for a 10 x 10 image and a 4 x 4     *)
(* request the result's origin pixel is the source pixel (3, 3).           *)
(***************************************************************************)
C7_CropCenter ==
    (/\ op = "CropCenter"
     /\ 0 <= size.X /\ size.X <= Dx(Bounds(img))
     /\ 0 <= size.Y /\ size.Y <= Dy(Bounds(img))) =>
        /\ (size.X > 0 /\ size.Y > 0) =>
              /\ Bounds(out) = Rectangle(Pt(0, 0), size)
              /\ out.Stride = 4 * size.X
              /\ CenterPixels
        /\ (size.X = 0 \/ size.Y = 0) => Bounds(out) = ZR
        /\ (Size(Bounds(img)) = Pt(10, 10) /\ size = Pt(4, 4)) =>
              PixelAt(out, 0, 0) =
                  PixelAt(img, Bounds(img).Min.X + 3, Bounds(img).Min.Y + 3)

C7_Witness ==
    /\ op = "CropCenter"
    /\ Size(Bounds(img)) = Pt(10, 10)
    /\ Bounds(img).Min = Pt(0, 0)
    /\ size = Pt(4, 4)
    /\ PixelAt(out, 0, 0) = PixelAt(img, 3, 3)
    /\ PixelAt(out, 3, 3) = PixelAt(img, 6, 6)

(***************************************************************************)
(* C8 (as stated): a crop request of negative size returns a zero-area     *)
(* buffer and raises no error: Crop given a rectangle whose Max is below   *)
(* its Min on some axis, CropCenter and CropTop given a negative width or  *)
(* height.  Fails for CropCenter and CropTop: image.Rect (lines 36, 53)    *)
(* puts the corners in order, so a negative size crops a region.           *)
(***************************************************************************)
NegativeRequest ==
    \/ op = "Crop" /\ Inverted(rect)
    \/ op \in {"CropCenter", "CropTop"} /\ (size.X < 0 \/ size.Y < 0)

C8_NegativeSizeIsZeroArea == NegativeRequest => (Area(out) = 0 /\ ~panicked)

(***************************************************************************)
(* C9: Overlay clamps opacity to [0, 1] before blending: with any opacity  *)
(* below 0 it returns the same buffer as with opacity 0, with any opacity  *)
(* above 1 the same buffer as with opacity 1.                              *)
(***************************************************************************)
BlendedAt(o) ==
    /\ SameFrame
    /\ \A p \in OutPoints :
          OutAt(p) = IF Covered(p) THEN BlendPixel(BgAt(p), FgAt(p), o, build).px
                     ELSE BgAt(p)

C9_OpacityClamped ==
    op = "Overlay" =>
        /\ FLess(opacity, FZero) => BlendedAt(FZero)
        /\ FLess(FOne, opacity) => BlendedAt(FOne)
        /\ (~FLess(opacity, FZero) /\ ~FLess(FOne, opacity)) => BlendedAt(opacity)

C9_Witness ==
    /\ op = "Overlay"
    /\ FLess(FOne, opacity)
    /\ \E p \in OutPoints : Covered(p) /\ FgAt(p)[4] = 200 /\ BgAt(p)[4] = 128
                            /\ OutAt(p) # BgAt(p)

(***************************************************************************)
(* C10: for every pixel of the Overlay intersection with coefSum non-zero  *)
(* each output colour channel is dst.c*coef1 + src.c*coef2 (coef2 =        *)
(* opacity*a2/255, coef1 = (1-coef2)*a1/255, both divided by their sum)    *)
(* truncated, not rounded, to an integer of 0..255, and the output alpha   *)
(* is min(a1 + a2*opacity*(255-a1)/255, 255) truncated; opaque red under   *)
(* opaque blue at opacity 0.5 gives (127, 0, 127, 255).  The arithmetic is *)
(* float64 with every operation rounded on its own (no fused               *)
(* multiply-add), as on amd64.                                             *)
(***************************************************************************)
C10_BlendTruncates ==
    op = "Overlay" =>
        \A p \in OutPoints :
            (Covered(p) /\ ~CoefSumZero(BgAt(p), FgAt(p), Effective(opacity))) =>
                /\ \A c \in 1..4 :
                      Truncates(OutAt(p)[c],
                                SpecBlend[BgAt(p), FgAt(p), Effective(opacity)][c])
                /\ (/\ BgAt(p) = <<255, 0, 0, 255>>
                    /\ FgAt(p) = <<0, 0, 255, 255>>
                    /\ opacity = Half) => OutAt(p) = <<127, 0, 127, 255>>

C10_Witness ==
    /\ op = "Overlay"
    /\ opacity = Half
    /\ \E p \in OutPoints : /\ Covered(p)
                            /\ BgAt(p) = <<255, 0, 0, 255>>
                            /\ FgAt(p) = <<0, 0, 255, 255>>
                            /\ OutAt(p) = <<127, 0, 127, 255>>

=============================================================================
